---- MODULE Spec2Model ----
(***************************************************************************)
(* Model of bubbles/gmsh_utils.py: the compilation of a topology (a        *)
(* sequence of (polygon, level) pairs plus a set of hole levels) into gmsh *)
(* entities (topology_to_gmsh_entities, bubble_to_gmsh_entities) and the   *)
(* emission of an entity set to the gmsh kernel (mesh).                    *)
(***************************************************************************)
EXTENDS Integers, Sequences, FiniteSets, TLC

(***************************************************************************)
(* Bounds of the model.                                                    *)
(***************************************************************************)
\* number of (polygon, level) pairs topo.flatten() yields in one run
MaxRegions == 3
\* levels are 0..MaxLevel
MaxLevel == 1
\* interior rings per polygon
MaxInteriors == 1
\* coordinates of a ring once the closing duplicate is dropped
MaxRingLen == 4
\* total number of ring coordinates (closing duplicates included) yielded in one run
MaxCoords == 16
\* records per collection of the entity set handed to mesh()
MaxEntities == 2

VARIABLES
    bubbles,            \* the pairs topo.flatten() has yielded so far
    holes,              \* topo.holes
    point_tag,
    line_tag,
    curve_loop_tag,
    plane_surface_tag,
    all_entities_list,
    entities,           \* the value topology_to_gmsh_entities returns
    pc,                 \* "loop", "done" or "error"
    gmsh_entities,      \* mesh(): the entity set argument
    dim,
    write_geo,
    correct_curve_loops,
    save_all,
    mesh_pc,            \* mesh(): position in the function
    idx,                \* mesh(): index of the next record of the running for loop
    calls               \* mesh(): the gmsh kernel calls made so far, in order

vars == <<bubbles, holes, point_tag, line_tag, curve_loop_tag, plane_surface_tag,
          all_entities_list, entities, pc, gmsh_entities, dim, write_geo,
          correct_curve_loops, save_all, mesh_pc, idx, calls>>

compile_vars == <<bubbles, holes, point_tag, line_tag, curve_loop_tag,
                  plane_surface_tag, all_entities_list, entities, pc>>

mesh_vars == <<gmsh_entities, dim, write_geo, correct_curve_loops, save_all,
               mesh_pc, idx, calls>>

(***************************************************************************)
(* The record types of gmsh_utils.py.                                      *)
(***************************************************************************)
Point(x, y, z, lc, tag) == [x |-> x, y |-> y, z |-> z, lc |-> lc, tag |-> tag]

Line(start_tag, end_tag, tag) == [start_tag |-> start_tag, end_tag |-> end_tag, tag |-> tag]

CurveLoop(line_tags, tag) == [line_tags |-> line_tags, tag |-> tag]

PlaneSurface(curve_loop_tags, tag) == [curve_loop_tags |-> curve_loop_tags, tag |-> tag]

PhysicalGroup(d, entity_tags, tag) == [dim |-> d, entity_tags |-> entity_tags, tag |-> tag]

\* the float 0.1 given to every point as lc, as the fraction 1/10
DefaultLc == <<1, 10>>

(***************************************************************************)
(* Inputs: shapely polygons.  A ring's coords are empty or closed (the     *)
(* first coordinate repeated at the end) with at least 4 entries.          *)
(***************************************************************************)
\* n pairwise distinct coordinates
Regular(n) == [i \in 1..n |-> <<i, i * i>>]

\* n coordinates of which only 2 are distinct
Spike(n) == [i \in 1..n |-> <<i % 2, 0>>]

Close(cs) == cs \o <<cs[1]>>

Rings == {Close(Regular(n)) : n \in 3..MaxRingLen} \cup {Close(Spike(3))}

SeqsUpTo(S, n) == UNION {[1..k -> S] : k \in 0..n}

EmptyPolygon == [exterior |-> <<>>, interiors |-> <<>>]

\* the ring moved by d along x
Shifted(ring, d) == [i \in 1..Len(ring) |-> <<ring[i][1] + d, ring[i][2]>>]

\* the i-th interior ring is moved by 10 * i, so that no two rings of a polygon
\* share a coordinate
Polygons ==
    {[exterior |-> e, interiors |-> [i \in 1..Len(is) |-> Shifted(is[i], 10 * i)]] :
        e \in Rings, is \in SeqsUpTo(Rings, MaxInteriors)}
        \cup {EmptyPolygon}

Levels == 0..MaxLevel

\* topo.holes: no hole level, or one
HoleSets == {{}} \cup {{L} : L \in Levels}

RECURSIVE SumLen(_)
SumLen(rings) == IF rings = <<>> THEN 0 ELSE Len(Head(rings)) + SumLen(Tail(rings))

NCoords(polygon) == Len(polygon.exterior) + SumLen(polygon.interiors)

RECURSIVE TotalCoords(_)
TotalCoords(bs) ==
    IF bs = <<>> THEN 0 ELSE NCoords(Head(bs).polygon) + TotalCoords(Tail(bs))

(***************************************************************************)
(* bubble_to_gmsh_entities                                                 *)
(***************************************************************************)
\* coords[:-1]
DropLast(coords) == SubSeq(coords, 1, Len(coords) - 1)

\* "Add points": one Point per coordinate of coords[:-1], tags from tag0 on
AddPoints(coords, tag0) ==
    LET cs == DropLast(coords)
    IN  [i \in 1..Len(cs) |-> Point(cs[i][1], cs[i][2], 0, DefaultLc, tag0 + i - 1)]

\* AddLines with the closing line drawn from the first point to the last
\* (start and end exchanged)
AddLines_ClosingReversed(points_local, tag0) ==
    LET n == Len(points_local)
    IN  [i \in 1..n |->
            IF i < n
            THEN Line(points_local[i].tag, points_local[i + 1].tag, tag0 + i - 1)
            ELSE Line(points_local[1].tag, points_local[n].tag, tag0 + n - 1)]

\* "Add lines": a line between consecutive points, then the line that closes
\* the ring (points_local must be non-empty)
AddLines(points_local, tag0) ==
    LET n == Len(points_local)
    IN  [i \in 1..n |->
            IF i < n
            THEN Line(points_local[i].tag, points_local[i + 1].tag, tag0 + i - 1)
            ELSE Line(points_local[n].tag, points_local[1].tag, tag0 + n - 1)]

\* "Add curve loop"
AddCurveLoop(lines_local, tag) ==
    CurveLoop([i \in 1..Len(lines_local) |-> lines_local[i].tag], tag)

\* WriteLoop without the "line_tag += 1" that follows the closing line
WriteLoop_ClosingLineKeepsTag(acc, coords) ==
    LET points_local == AddPoints(coords, acc.point_tag)
    IN  IF acc.raised \/ Len(points_local) = 0
        THEN [acc EXCEPT !.raised = TRUE]
        ELSE LET lines_local == AddLines(points_local, acc.line_tag)
             IN  [raised |-> FALSE,
                  points_total |-> acc.points_total \o points_local,
                  lines_total |-> acc.lines_total \o lines_local,
                  curve_loops |->
                      Append(acc.curve_loops, AddCurveLoop(lines_local, acc.curve_loop_tag)),
                  point_tag |-> acc.point_tag + Len(points_local),
                  line_tag |-> acc.line_tag + Len(lines_local) - 1,
                  curve_loop_tag |-> acc.curve_loop_tag + 1]

\* One ring (the exterior loop, or one pass of the loop over the interiors).
\* acc holds the lists and tag counters of the call; points_local[-1] raises
\* IndexError when the ring has no coordinates.
WriteLoop(acc, coords) ==
    LET points_local == AddPoints(coords, acc.point_tag)
    IN  IF acc.raised \/ Len(points_local) = 0
        THEN [acc EXCEPT !.raised = TRUE]
        ELSE LET lines_local == AddLines(points_local, acc.line_tag)
             IN  [raised |-> FALSE,
                  points_total |-> acc.points_total \o points_local,
                  lines_total |-> acc.lines_total \o lines_local,
                  curve_loops |->
                      Append(acc.curve_loops, AddCurveLoop(lines_local, acc.curve_loop_tag)),
                  point_tag |-> acc.point_tag + Len(points_local),
                  line_tag |-> acc.line_tag + Len(lines_local),
                  curve_loop_tag |-> acc.curve_loop_tag + 1]

RECURSIVE WriteInteriorLoops(_, _)
WriteInteriorLoops(acc, interiors) ==
    IF interiors = <<>>
    THEN acc
    ELSE WriteInteriorLoops(WriteLoop(acc, Head(interiors)), Tail(interiors))

\* WriteSurface that lists the exterior loop only
WriteSurface_ExteriorOnly(curve_loops, tag) == PlaneSurface(<<curve_loops[1].tag>>, tag)

\* "Write surface": the plane surface over all curve loops of the polygon
WriteSurface(curve_loops, tag) ==
    PlaneSurface([i \in 1..Len(curve_loops) |-> curve_loops[i].tag], tag)

bubble_to_gmsh_entities(polygon, level, pt, lt, clt, pst) ==
    LET physical_group_tag == level + 1
        start == [raised |-> FALSE, points_total |-> <<>>, lines_total |-> <<>>,
                  curve_loops |-> <<>>, point_tag |-> pt, line_tag |-> lt,
                  curve_loop_tag |-> clt]
        acc == WriteInteriorLoops(WriteLoop(start, polygon.exterior), polygon.interiors)
    IN  IF acc.raised
        THEN [raised |-> TRUE]
        ELSE [raised |-> FALSE,
              entities |->
                  [points |-> acc.points_total,
                   lines |-> acc.lines_total,
                   curve_loops |-> acc.curve_loops,
                   plane_surfaces |-> <<WriteSurface(acc.curve_loops, pst)>>,
                   physical_groups |-> <<PhysicalGroup(2, <<pst>>, physical_group_tag)>>],
              point_tag |-> acc.point_tag,
              line_tag |-> acc.line_tag,
              curve_loop_tag |-> acc.curve_loop_tag,
              plane_surface_tag |-> pst + 1]

(***************************************************************************)
(* topology_to_gmsh_entities                                               *)
(***************************************************************************)
\* the state of the function before the loop
InitRun ==
    [raised |-> FALSE, point_tag |-> 1, line_tag |-> 1, curve_loop_tag |-> 1,
     plane_surface_tag |-> 1, all_entities_list |-> <<>>]

\* ForBubbleBody in which a hole-level pair still takes a plane-surface tag
ForBubbleBody_HoleTakesSurfaceTag(st, polygon, level, hs) ==
    IF level \notin hs
    THEN LET r == bubble_to_gmsh_entities(polygon, level, st.point_tag, st.line_tag,
                                          st.curve_loop_tag, st.plane_surface_tag)
         IN  IF r.raised
             THEN [st EXCEPT !.raised = TRUE]
             ELSE [raised |-> FALSE,
                   point_tag |-> r.point_tag,
                   line_tag |-> r.line_tag,
                   curve_loop_tag |-> r.curve_loop_tag,
                   plane_surface_tag |-> r.plane_surface_tag,
                   all_entities_list |-> Append(st.all_entities_list, r.entities)]
    ELSE [st EXCEPT !.plane_surface_tag = st.plane_surface_tag + 1]

\* ForBubbleBody that unpacks the returned curve_loop_tag into plane_surface_tag
ForBubbleBody_SwappedUnpack(st, polygon, level, hs) ==
    IF level \notin hs
    THEN LET r == bubble_to_gmsh_entities(polygon, level, st.point_tag, st.line_tag,
                                          st.curve_loop_tag, st.plane_surface_tag)
         IN  IF r.raised
             THEN [st EXCEPT !.raised = TRUE]
             ELSE [raised |-> FALSE,
                   point_tag |-> r.point_tag,
                   line_tag |-> r.line_tag,
                   curve_loop_tag |-> r.curve_loop_tag,
                   plane_surface_tag |-> r.curve_loop_tag,
                   all_entities_list |-> Append(st.all_entities_list, r.entities)]
    ELSE st

\* ForBubbleBody without the test "level not in topo.holes"
ForBubbleBody_NoHoleTest(st, polygon, level, hs) ==
    LET r == bubble_to_gmsh_entities(polygon, level, st.point_tag, st.line_tag,
                                     st.curve_loop_tag, st.plane_surface_tag)
    IN  IF r.raised
        THEN [st EXCEPT !.raised = TRUE]
        ELSE [raised |-> FALSE,
              point_tag |-> r.point_tag,
              line_tag |-> r.line_tag,
              curve_loop_tag |-> r.curve_loop_tag,
              plane_surface_tag |-> r.plane_surface_tag,
              all_entities_list |-> Append(st.all_entities_list, r.entities)]

\* one pass of "for polygon, level in bubbles"
ForBubbleBody(st, polygon, level, hs) ==
    IF level \notin hs
    THEN LET r == bubble_to_gmsh_entities(polygon, level, st.point_tag, st.line_tag,
                                          st.curve_loop_tag, st.plane_surface_tag)
         IN  IF r.raised
             THEN [st EXCEPT !.raised = TRUE]
             ELSE [raised |-> FALSE,
                   point_tag |-> r.point_tag,
                   line_tag |-> r.line_tag,
                   curve_loop_tag |-> r.curve_loop_tag,
                   plane_surface_tag |-> r.plane_surface_tag,
                   all_entities_list |-> Append(st.all_entities_list, r.entities)]
    ELSE st

MinTag(s) == CHOOSE t \in {s[i].tag : i \in 1..Len(s)} : \A i \in 1..Len(s) : t <= s[i].tag

\* the sort left out
SortByTag_Unsorted(s) == s

\* physical_groups.sort(key=lambda x: x.tag): list.sort is stable
RECURSIVE SortByTag(_)
SortByTag(s) ==
    IF s = <<>>
    THEN <<>>
    ELSE LET m == MinTag(s)
         IN  SelectSeq(s, LAMBDA x : x.tag = m) \o SortByTag(SelectSeq(s, LAMBDA x : x.tag # m))

\* length of the leading run of records that carry the tag of the first one
RunLen(s) ==
    CHOOSE n \in 1..Len(s) :
        /\ \A i \in 1..n : s[i].tag = s[1].tag
        /\ n = Len(s) \/ s[n + 1].tag # s[1].tag

\* itertools.groupby(physical_groups, lambda x: x.tag): one group per run of
\* consecutive records with equal tag
RECURSIVE GroupByTag(_)
GroupByTag(s) ==
    IF s = <<>>
    THEN <<>>
    ELSE LET n == RunLen(s)
         IN  <<[tag |-> s[1].tag, group |-> SubSeq(s, 1, n)]>>
                 \o GroupByTag(SubSeq(s, n + 1, Len(s)))

\* MergeGroup that collects the members' own tags instead of their entity tags
MergeGroup_MemberTags(tag, group) ==
    PhysicalGroup(2, [j \in 1..Len(group) |-> group[j].tag], tag)

\* one merged group: its entity tags are the first entity tag of each member
MergeGroup(tag, group) ==
    PhysicalGroup(2, [j \in 1..Len(group) |-> group[j].entity_tags[1]], tag)

\* "Group all physical groups by tag"
MergePhysicalGroups(ael) ==
    LET physical_groups == [i \in 1..Len(ael) |-> ael[i].physical_groups[1]]
        groups == GroupByTag(SortByTag(physical_groups))
    IN  [g \in 1..Len(groups) |-> MergeGroup(groups[g].tag, groups[g].group)]

\* [i for ent in all_entities_list for i in ent[kind]]
RECURSIVE Chain(_, _)
Chain(ael, kind) ==
    IF ael = <<>> THEN <<>> ELSE Head(ael)[kind] \o Chain(Tail(ael), kind)

\* the dict the function returns
ReturnedEntities(ael) ==
    [points |-> Chain(ael, "points"),
     lines |-> Chain(ael, "lines"),
     curve_loops |-> Chain(ael, "curve_loops"),
     plane_surfaces |-> Chain(ael, "plane_surfaces"),
     physical_groups |-> MergePhysicalGroups(ael)]

\* the whole function, on a complete input
RECURSIVE RunLoop(_, _, _)
RunLoop(st, bs, hs) ==
    IF bs = <<>> \/ st.raised
    THEN st
    ELSE RunLoop(ForBubbleBody(st, Head(bs).polygon, Head(bs).level, hs), Tail(bs), hs)

topology_to_gmsh_entities(bs, hs) ==
    LET st == RunLoop(InitRun, bs, hs)
    IN  IF st.raised
        THEN [raised |-> TRUE]
        ELSE [raised |-> FALSE, entities |-> ReturnedEntities(st.all_entities_list)]

NoEntities ==
    [points |-> <<>>, lines |-> <<>>, curve_loops |-> <<>>, plane_surfaces |-> <<>>,
     physical_groups |-> <<>>]

MeshIdle ==
    /\ gmsh_entities = NoEntities
    /\ dim = 2
    /\ write_geo = TRUE
    /\ correct_curve_loops = FALSE
    /\ save_all = FALSE
    /\ mesh_pc = "idle"
    /\ idx = 1
    /\ calls = <<>>

Init ==
    /\ bubbles = <<>>
    /\ holes \in HoleSets
    /\ point_tag = InitRun.point_tag
    /\ line_tag = InitRun.line_tag
    /\ curve_loop_tag = InitRun.curve_loop_tag
    /\ plane_surface_tag = InitRun.plane_surface_tag
    /\ all_entities_list = InitRun.all_entities_list
    /\ entities = NoEntities
    /\ pc = "loop"
    /\ MeshIdle

\* the loop takes the next pair from topo.flatten() and runs its body on it
ForBubble ==
    /\ pc = "loop"
    /\ Len(bubbles) < MaxRegions
    /\ \E polygon \in Polygons, level \in Levels :
        /\ TotalCoords(bubbles) + NCoords(polygon) <= MaxCoords
        /\ LET st == ForBubbleBody(
                        [raised |-> FALSE, point_tag |-> point_tag, line_tag |-> line_tag,
                         curve_loop_tag |-> curve_loop_tag,
                         plane_surface_tag |-> plane_surface_tag,
                         all_entities_list |-> all_entities_list],
                        polygon, level, holes)
           IN  /\ bubbles' = Append(bubbles, [polygon |-> polygon, level |-> level])
               /\ point_tag' = st.point_tag
               /\ line_tag' = st.line_tag
               /\ curve_loop_tag' = st.curve_loop_tag
               /\ plane_surface_tag' = st.plane_surface_tag
               /\ all_entities_list' = st.all_entities_list
               /\ pc' = IF st.raised THEN "error" ELSE "loop"
    /\ UNCHANGED <<holes, entities>>
    /\ UNCHANGED mesh_vars

\* topo.flatten() is exhausted: the physical groups are merged and the dict returned
MergeAndReturn ==
    /\ pc = "loop"
    /\ entities' = ReturnedEntities(all_entities_list)
    /\ pc' = "done"
    /\ UNCHANGED <<bubbles, holes, point_tag, line_tag, curve_loop_tag,
                   plane_surface_tag, all_entities_list>>
    /\ UNCHANGED mesh_vars

Next == ForBubble \/ MergeAndReturn

Spec == Init /\ [][Next]_vars

(***************************************************************************)
(* Notions the properties are stated with.                                 *)
(***************************************************************************)
\* the pairs of bs whose level is not a hole level, in order
NonHoles(bs, hs) == SelectSeq(bs, LAMBDA b : b.level \notin hs)

\* the rings of a polygon in the order they are compiled
RingsOf(polygon) == <<polygon.exterior>> \o polygon.interiors

\* number of coordinates of the rings before the j-th, closing duplicates dropped
RECURSIVE Before(_, _)
Before(rings, j) ==
    IF j <= 1 THEN 0 ELSE Before(rings, j - 1) + Len(DropLast(rings[j - 1]))

TagsOf(coll) == {coll[i].tag : i \in 1..Len(coll)}

SeqRange(s) == {s[i] : i \in 1..Len(s)}

\* every record of coll carries its position as tag
TagIsPosition(coll) == \A i \in 1..Len(coll) : coll[i].tag = i

\* number of distinct coordinates of a ring once the closing duplicate is dropped
Distinct(ring) == Cardinality(SeqRange(DropLast(ring)))

\* the k-th compiled region and the local entity set made for it
RegionOf(k) == NonHoles(bubbles, holes)[k]

\* C1: when topology_to_gmsh_entities returns, in each of points, lines,
\* curve_loops and plane_surfaces the i-th record carries tag i, so the tags are
\* pairwise distinct and are exactly 1..n; hole-level pairs leave no gap.
C1_TagsContiguous ==
    pc = "done" =>
        /\ TagIsPosition(entities.points)
        /\ TagIsPosition(entities.lines)
        /\ TagIsPosition(entities.curve_loops)
        /\ TagIsPosition(entities.plane_surfaces)
        /\ \A kind \in {"points", "lines", "curve_loops", "plane_surfaces"} :
              /\ TagsOf(entities[kind]) = 1..Len(entities[kind])
              /\ Cardinality(TagsOf(entities[kind])) = Len(entities[kind])

\* a run that returned, with a hole-level pair between two compiled pairs, the
\* last of which has an interior ring
C1_Witness ==
    /\ pc = "done"
    /\ Len(bubbles) = 3
    /\ bubbles[1].level \notin holes
    /\ bubbles[2].level \in holes
    /\ bubbles[3].level \notin holes
    /\ Len(bubbles[3].polygon.interiors) = 1
    /\ Len(entities.plane_surfaces) = 2

\* the j-th ring of the k-th compiled region, with N coordinates after the
\* closing duplicate is dropped: its N points, N lines and its curve loop
RingCompiledRight(k, j) ==
    LET e == all_entities_list[k]
        rings == RingsOf(RegionOf(k).polygon)
        cs == DropLast(rings[j])
        N == Len(cs)
        off == Before(rings, j)
        pnt(i) == e.points[off + i]
        lin(i) == e.lines[off + i]
        succ(i) == (i % N) + 1
    IN  /\ \A i \in 1..N : pnt(i).x = cs[i][1] /\ pnt(i).y = cs[i][2]
        /\ \A i \in 1..N : lin(i).start_tag = pnt(i).tag
        /\ \A i \in 1..(N - 1) : lin(i).end_tag = pnt(i + 1).tag
        /\ lin(N).end_tag = pnt(1).tag
        /\ e.curve_loops[j].line_tags = [i \in 1..N |-> lin(i).tag]
        /\ \A i \in 1..N : lin(i).end_tag = lin(succ(i)).start_tag
        /\ \A i \in 1..N : Cardinality({l \in 1..N : lin(l).start_tag = pnt(i).tag}) = 1
        /\ Cardinality({pnt(i).tag : i \in 1..N}) = N

\* C2: every ring with N >= 3 coordinates (closing duplicate dropped) compiled
\* by bubble_to_gmsh_entities gets exactly N points, N lines and one curve loop;
\* line i goes from point i to point i+1, the last line back to the first point;
\* the curve loop lists these N lines in order, a closed cycle in which every
\* point starts exactly one line.
C2_RingCompiled ==
    \A k \in 1..Len(all_entities_list) :
        LET e == all_entities_list[k]
            rings == RingsOf(RegionOf(k).polygon)
            total == Before(rings, Len(rings) + 1)
        IN  /\ Len(e.points) = total
            /\ Len(e.lines) = total
            /\ Len(e.curve_loops) = Len(rings)
            /\ \A j \in 1..Len(rings) :
                  Len(DropLast(rings[j])) >= 3 => RingCompiledRight(k, j)

\* a second compiled region (tags no longer start at 1) whose exterior has 4
\* coordinates and whose interior ring has 3
C2_Witness ==
    /\ Len(all_entities_list) = 2
    /\ Len(DropLast(RegionOf(2).polygon.exterior)) = 4
    /\ Len(RegionOf(2).polygon.interiors) = 1
    /\ Len(all_entities_list[2].curve_loops[2].line_tags) = 3
    /\ all_entities_list[2].points[1].tag > 1

\* C3: when topology_to_gmsh_entities returns, physical_groups holds exactly
\* one group per distinct level L of the non-hole pairs, with tag L + 1 and
\* dimension 2, whose entity tags are the plane-surface tags of the non-hole
\* pairs of level L, each once; no two groups share a tag and every tag is >= 1.
C3_GroupsMerged ==
    pc = "done" =>
        LET nh == NonHoles(bubbles, holes)
            groups == entities.physical_groups
            levels == {nh[k].level : k \in 1..Len(nh)}
            surfaces(L) == {all_entities_list[k].plane_surfaces[1].tag :
                               k \in {i \in 1..Len(nh) : nh[i].level = L}}
        IN  /\ Len(groups) = Cardinality(levels)
            /\ \A L \in levels :
                  \E g \in 1..Len(groups) :
                      /\ groups[g].tag = L + 1
                      /\ groups[g].dim = 2
                      /\ SeqRange(groups[g].entity_tags) = surfaces(L)
                      /\ Len(groups[g].entity_tags) = Cardinality(surfaces(L))
            /\ \A g, h \in 1..Len(groups) : groups[g].tag = groups[h].tag => g = h
            /\ \A g \in 1..Len(groups) : groups[g].tag >= 1

\* three compiled pairs of levels 1, 0, 1: the two pairs of level 1 are not
\* adjacent in the input
C3_Witness ==
    /\ pc = "done"
    /\ Len(bubbles) = 3
    /\ holes = {}
    /\ bubbles[1].level = 1
    /\ bubbles[2].level = 0
    /\ bubbles[3].level = 1
    /\ Len(entities.physical_groups) = 2

\* C4: hole-level pairs contribute nothing: the run ends as the run on the same
\* input without its hole-level pairs does, with the same returned dict (all
\* five collections, every tag).
C4_HolesContributeNothing ==
    LET ref == topology_to_gmsh_entities(NonHoles(bubbles, holes), holes)
    IN  /\ pc = "done" => ~ref.raised /\ entities = ref.entities
        /\ pc = "error" => ref.raised

\* a run that returned with a hole-level pair before and between compiled pairs
C4_Witness ==
    /\ pc = "done"
    /\ Len(bubbles) = 3
    /\ bubbles[1].level \in holes
    /\ bubbles[1].polygon # EmptyPolygon
    /\ bubbles[2].level \notin holes
    /\ bubbles[3].level \notin holes
    /\ Len(entities.points) >= 6

\* some ring of a non-hole pair has fewer than 3 distinct coordinates
DegenerateRingYielded ==
    \E k \in 1..Len(bubbles) :
        /\ bubbles[k].level \notin holes
        /\ \E j \in 1..Len(RingsOf(bubbles[k].polygon)) :
              Distinct(RingsOf(bubbles[k].polygon)[j]) < 3

\* C5: if a ring of a non-hole pair has fewer than 3 distinct coordinates once
\* the closing duplicate is dropped, the run fails and returns no entity set
\* (any raised error is taken for the DegenerateRing failure here).
C5_DegenerateRingFails == DegenerateRingYielded => pc # "done"

\* C6: for a polygon with K interior rings bubble_to_gmsh_entities makes K + 1
\* curve loops with consecutive increasing tags, one PlaneSurface listing these
\* tags in the order the rings were compiled (exterior first), and one
\* PhysicalGroup of dimension 2 whose entity_tags is <<plane surface tag>>.
C6_RegionCompiled ==
    \A k \in 1..Len(all_entities_list) :
        LET e == all_entities_list[k]
            polygon == RegionOf(k).polygon
            K == Len(polygon.interiors)
            rings == RingsOf(polygon)
            first(j) == e.points[Before(rings, j) + 1]
        IN  /\ Len(e.curve_loops) = K + 1
            /\ \A j \in 1..K : e.curve_loops[j + 1].tag = e.curve_loops[j].tag + 1
            /\ \A j \in 1..(K + 1) :
                  \E l \in 1..Len(e.lines) :
                      /\ e.lines[l].tag = e.curve_loops[j].line_tags[1]
                      /\ e.lines[l].start_tag = first(j).tag
                      /\ first(j).x = rings[j][1][1]
            /\ Len(e.plane_surfaces) = 1
            /\ e.plane_surfaces[1].curve_loop_tags =
                   [j \in 1..(K + 1) |-> e.curve_loops[j].tag]
            /\ Len(e.physical_groups) = 1
            /\ e.physical_groups[1].dim = 2
            /\ e.physical_groups[1].entity_tags = <<e.plane_surfaces[1].tag>>
            /\ e.physical_groups[1].tag = RegionOf(k).level + 1

\* a second compiled region with an interior ring, after a first one with an
\* interior ring too (its loop tags are 3 and 4, its surface tag 2)
C6_Witness ==
    /\ Len(all_entities_list) = 2
    /\ Len(RegionOf(1).polygon.interiors) = 1
    /\ Len(RegionOf(2).polygon.interiors) = 1
    /\ all_entities_list[2].plane_surfaces[1].curve_loop_tags = <<3, 4>>
    /\ all_entities_list[2].physical_groups[1].entity_tags = <<2>>

\* the input is two non-hole pairs of one level
TwoOfOneLevel ==
    /\ Len(bubbles) = 2
    /\ bubbles[1].level \notin holes
    /\ bubbles[1].level = bubbles[2].level

\* C7: for two non-hole pairs of the same level L, the run on <<(P1, L), (P2, L)>>
\* and the run on the reversed input each return exactly one PhysicalGroup, of
\* tag L + 1, and the two groups have the same set of entity tags.
C7_MergeOrderInsensitive ==
    (pc = "done" /\ TwoOfOneLevel) =>
        LET rev == topology_to_gmsh_entities(<<bubbles[2], bubbles[1]>>, holes)
            L == bubbles[1].level
        IN  /\ Len(entities.physical_groups) = 1
            /\ entities.physical_groups[1].tag = L + 1
            /\ ~rev.raised
            /\ Len(rev.entities.physical_groups) = 1
            /\ rev.entities.physical_groups[1].tag = L + 1
            /\ SeqRange(entities.physical_groups[1].entity_tags)
                   = SeqRange(rev.entities.physical_groups[1].entity_tags)

\* two different polygons of level 1, the first without and the second with an
\* interior ring
C7_Witness ==
    /\ pc = "done"
    /\ TwoOfOneLevel
    /\ bubbles[1].level = 1
    /\ Len(bubbles[1].polygon.interiors) = 0
    /\ Len(bubbles[2].polygon.interiors) = 1
    /\ entities.physical_groups[1].entity_tags = <<1, 2>>

\* C8: with no non-hole pair (no pair at all, or hole-level pairs only) the run
\* does not fail and returns five empty collections.
C8_EmptyTopology ==
    NonHoles(bubbles, holes) = <<>> =>
        /\ pc # "error"
        /\ pc = "done" =>
              /\ entities.points = <<>>
              /\ entities.lines = <<>>
              /\ entities.curve_loops = <<>>
              /\ entities.plane_surfaces = <<>>
              /\ entities.physical_groups = <<>>

\* a run that returned after two hole-level pairs, one of them the empty polygon
C8_Witness ==
    /\ pc = "done"
    /\ Len(bubbles) = 2
    /\ bubbles[1].level \in holes
    /\ bubbles[2].level \in holes
    /\ bubbles[1].polygon = EmptyPolygon
    /\ bubbles[2].polygon # EmptyPolygon
    /\ entities.points = <<>>

\* every tag in refs is the tag of a record of coll
RefersInto(refs, coll) == \A i \in 1..Len(refs) : refs[i] \in TagsOf(coll)

\* the record of tag t is listed by exactly one record of owners (field f), once
OwnedOnce(t, owners, f) ==
    Cardinality(UNION {{<<o, i>> : i \in {n \in 1..Len(owners[o][f]) : owners[o][f][n] = t}} :
                          o \in 1..Len(owners)}) = 1

\* C10: in the returned dict every Line's start and end tags are tags of Points;
\* every line tag of a CurveLoop is the tag of a Line and each Line is in exactly
\* one CurveLoop; every curve-loop tag of a PlaneSurface is the tag of a
\* CurveLoop and each CurveLoop is in exactly one PlaneSurface; every entity tag
\* of a PhysicalGroup is the tag of a PlaneSurface and each PlaneSurface is in
\* exactly one PhysicalGroup.
C10_ReferentialIntegrity ==
    pc = "done" =>
        LET e == entities
        IN  /\ \A i \in 1..Len(e.lines) :
                  /\ e.lines[i].start_tag \in TagsOf(e.points)
                  /\ e.lines[i].end_tag \in TagsOf(e.points)
            /\ \A c \in 1..Len(e.curve_loops) : RefersInto(e.curve_loops[c].line_tags, e.lines)
            /\ \A i \in 1..Len(e.lines) : OwnedOnce(e.lines[i].tag, e.curve_loops, "line_tags")
            /\ \A p \in 1..Len(e.plane_surfaces) :
                  RefersInto(e.plane_surfaces[p].curve_loop_tags, e.curve_loops)
            /\ \A c \in 1..Len(e.curve_loops) :
                  OwnedOnce(e.curve_loops[c].tag, e.plane_surfaces, "curve_loop_tags")
            /\ \A g \in 1..Len(e.physical_groups) :
                  RefersInto(e.physical_groups[g].entity_tags, e.plane_surfaces)
            /\ \A p \in 1..Len(e.plane_surfaces) :
                  OwnedOnce(e.plane_surfaces[p].tag, e.physical_groups, "entity_tags")

\* a returned dict of three surfaces in two physical groups, one surface with
\* an interior ring
C10_Witness ==
    /\ pc = "done"
    /\ Len(entities.plane_surfaces) = 3
    /\ Len(entities.physical_groups) = 2
    /\ Len(entities.curve_loops) = 4
    /\ \E g \in 1..2 : entities.physical_groups[g].entity_tags = <<1, 3>>

(***************************************************************************)
(* mesh                                                                    *)
(***************************************************************************)
\* the for loops of mesh(), in the order of the code
Kinds == <<"points", "lines", "curve_loops", "plane_surfaces", "physical_groups">>

KernelCall(fn, args) == [fn |-> fn, args |-> args]

\* where control goes when the loops before the k-th are over: the first of
\* the loops k, k+1, ... that has a record to visit, else gmsh.model.geo.synchronize()
RECURSIVE LoopFrom(_, _)
LoopFrom(ge, k) ==
    IF k > Len(Kinds) THEN "synchronize"
    ELSE IF Len(ge[Kinds[k]]) > 0 THEN Kinds[k]
    ELSE LoopFrom(ge, k + 1)

\* one pass of the k-th for loop: the kernel call for the record at idx
LoopPass(k, call) ==
    /\ mesh_pc = Kinds[k]
    /\ calls' = Append(calls, call)
    /\ IF idx < Len(gmsh_entities[Kinds[k]])
       THEN idx' = idx + 1 /\ mesh_pc' = mesh_pc
       ELSE idx' = 1 /\ mesh_pc' = LoopFrom(gmsh_entities, k + 1)
    /\ UNCHANGED <<gmsh_entities, dim, write_geo, correct_curve_loops, save_all>>
    /\ UNCHANGED compile_vars

\* a step of the straight-line code after the loops
Straight(from, call, to) ==
    /\ mesh_pc = from
    /\ calls' = Append(calls, call)
    /\ mesh_pc' = to
    /\ UNCHANGED <<gmsh_entities, dim, write_geo, correct_curve_loops, save_all, idx>>
    /\ UNCHANGED compile_vars

\* assert dim in {2, 3}
MeshAssertFails ==
    /\ mesh_pc = "start"
    /\ dim \notin {2, 3}
    /\ mesh_pc' = "error"
    /\ UNCHANGED <<gmsh_entities, dim, write_geo, correct_curve_loops, save_all, idx, calls>>
    /\ UNCHANGED compile_vars

MeshInitialize ==
    /\ dim \in {2, 3}
    /\ Straight("start", KernelCall("initialize", <<>>), "model.add")

MeshModelAdd ==
    Straight("model.add", KernelCall("model.add", <<>>), LoopFrom(gmsh_entities, 1))

MeshAddPoint ==
    LET point == gmsh_entities.points[idx]
    IN  LoopPass(1, KernelCall("addPoint",
                    [x |-> point.x, y |-> point.y, z |-> point.z, meshSize |-> point.lc,
                     tag |-> point.tag]))

MeshAddLine ==
    LET line == gmsh_entities.lines[idx]
    IN  LoopPass(2, KernelCall("addLine",
                    [startTag |-> line.start_tag, endTag |-> line.end_tag, tag |-> line.tag]))

\* MeshAddCurveLoop that leaves reorient at False whatever correct_curve_loops is
MeshAddCurveLoop_NoReorient ==
    LET curve_loop == gmsh_entities.curve_loops[idx]
    IN  LoopPass(3, KernelCall("addCurveLoop",
                    [curveTags |-> curve_loop.line_tags, tag |-> curve_loop.tag,
                     reorient |-> FALSE]))

MeshAddCurveLoop ==
    LET curve_loop == gmsh_entities.curve_loops[idx]
    IN  LoopPass(3, KernelCall("addCurveLoop",
                    [curveTags |-> curve_loop.line_tags, tag |-> curve_loop.tag,
                     reorient |-> correct_curve_loops]))

MeshAddPlaneSurface ==
    LET plane_surface == gmsh_entities.plane_surfaces[idx]
    IN  LoopPass(4, KernelCall("addPlaneSurface",
                    [wireTags |-> plane_surface.curve_loop_tags, tag |-> plane_surface.tag]))

MeshAddPhysicalGroup ==
    LET physical_group == gmsh_entities.physical_groups[idx]
    IN  LoopPass(5, KernelCall("addPhysicalGroup",
                    [dim |-> physical_group.dim, tag |-> physical_group.tag,
                     tags |-> physical_group.entity_tags]))

MeshSynchronize == Straight("synchronize", KernelCall("synchronize", <<>>), "generate")

MeshGenerate == Straight("generate", KernelCall("generate", [dim |-> dim]), "version")

MeshSetVersion ==
    Straight("version",
             KernelCall("setNumber", [name |-> "Mesh.MshFileVersion", value |-> 2]),
             IF save_all THEN "save_all" ELSE "write_msh")

MeshSetSaveAll ==
    Straight("save_all", KernelCall("setNumber", [name |-> "Mesh.SaveAll", value |-> 1]),
             "write_msh")

MeshWriteMsh ==
    Straight("write_msh", KernelCall("write", [suffix |-> ".msh"]),
             IF write_geo THEN "write_geo" ELSE "finalize")

MeshWriteGeo ==
    Straight("write_geo", KernelCall("write", [suffix |-> ".geo_unrolled"]), "finalize")

MeshFinalize == Straight("finalize", KernelCall("finalize", <<>>), "done")

\* entity sets handed to mesh(): any GmshEntities is accepted; the tags of
\* the records differ from their positions
SomePoints(n) == [i \in 1..n |-> Point(i, i, 0, DefaultLc, 2 * i + 1)]

SomeLines(n) == [i \in 1..n |-> Line(2 * i + 1, 2 * i + 3, 2 * i)]

SomeCurveLoops(n) == [i \in 1..n |-> CurveLoop(<<2 * i, 2 * i + 2>>, i + 4)]

SomePlaneSurfaces(n) == [i \in 1..n |-> PlaneSurface(<<i + 4>>, i + 2)]

SomePhysicalGroups(n) == [i \in 1..n |-> PhysicalGroup(2, <<i + 2>>, 3 * i)]

EntitySets ==
    {[points |-> SomePoints(a), lines |-> SomeLines(b), curve_loops |-> SomeCurveLoops(c),
      plane_surfaces |-> SomePlaneSurfaces(d), physical_groups |-> SomePhysicalGroups(e)] :
        a \in 0..MaxEntities, b \in 0..MaxEntities, c \in 0..MaxEntities,
        d \in 0..MaxEntities, e \in 0..MaxEntities}

InitMesh ==
    /\ bubbles = <<>>
    /\ holes = {}
    /\ point_tag = InitRun.point_tag
    /\ line_tag = InitRun.line_tag
    /\ curve_loop_tag = InitRun.curve_loop_tag
    /\ plane_surface_tag = InitRun.plane_surface_tag
    /\ all_entities_list = InitRun.all_entities_list
    /\ entities = NoEntities
    /\ pc = "idle"
    /\ gmsh_entities \in EntitySets
    /\ dim \in 1..3
    /\ write_geo \in BOOLEAN
    /\ correct_curve_loops \in BOOLEAN
    /\ save_all \in BOOLEAN
    /\ mesh_pc = "start"
    /\ idx = 1
    /\ calls = <<>>

NextMesh ==
    \/ MeshAssertFails
    \/ MeshInitialize
    \/ MeshModelAdd
    \/ MeshAddPoint
    \/ MeshAddLine
    \/ MeshAddCurveLoop
    \/ MeshAddPlaneSurface
    \/ MeshAddPhysicalGroup
    \/ MeshSynchronize
    \/ MeshGenerate
    \/ MeshSetVersion
    \/ MeshSetSaveAll
    \/ MeshWriteMsh
    \/ MeshWriteGeo
    \/ MeshFinalize

SpecMesh == InitMesh /\ [][NextMesh]_vars

(***************************************************************************)
(* The order of the kernel calls of mesh().                                *)
(***************************************************************************)
CallsOf(fn) == SelectSeq(calls, LAMBDA c : c.fn = fn)

\* the place of a call in the order C9 states (-1: a call C9 does not speak of)
Phase(c) ==
    CASE c.fn = "initialize" -> 0
      [] c.fn = "addPoint" -> 1
      [] c.fn = "addLine" -> 2
      [] c.fn = "addCurveLoop" -> 3
      [] c.fn = "addPlaneSurface" -> 4
      [] c.fn = "addPhysicalGroup" -> 5
      [] c.fn = "synchronize" -> 6
      [] c.fn = "generate" -> 7
      [] c.fn = "write" -> (IF c.args.suffix = ".msh" THEN 8 ELSE 9)
      [] c.fn = "finalize" -> 10
      [] OTHER -> -1

\* C9: in a run of mesh() that completes, initialize is called once and first;
\* then come all addPoint calls, all addLine calls, all addCurveLoop calls, all
\* addPlaneSurface calls and all addPhysicalGroup calls, in this order; then
\* synchronize, mesh generation and the .msh write (the geometry file is written
\* only if write_geo); finalize is called once and last.  Every record of the
\* entity set is handed over exactly once, in order, with its own tag, and every
\* addCurveLoop call gets correct_curve_loops as reorient.
C9_KernelCallOrder ==
    /\ \A i, j \in 1..Len(calls) :
          (i < j /\ Phase(calls[i]) >= 0 /\ Phase(calls[j]) >= 0)
              => Phase(calls[i]) <= Phase(calls[j])
    /\ mesh_pc = "done" =>
          /\ calls[1].fn = "initialize"
          /\ Len(CallsOf("initialize")) = 1
          /\ calls[Len(calls)].fn = "finalize"
          /\ Len(CallsOf("finalize")) = 1
          /\ Len(CallsOf("synchronize")) = 1
          /\ Len(CallsOf("generate")) = 1
          /\ [i \in 1..Len(CallsOf("write")) |-> CallsOf("write")[i].args.suffix]
                 = (IF write_geo THEN <<".msh", ".geo_unrolled">> ELSE <<".msh">>)
          /\ [i \in 1..Len(CallsOf("addPoint")) |-> CallsOf("addPoint")[i].args]
                 = [i \in 1..Len(gmsh_entities.points) |->
                       LET p == gmsh_entities.points[i]
                       IN  [x |-> p.x, y |-> p.y, z |-> p.z, meshSize |-> p.lc, tag |-> p.tag]]
          /\ [i \in 1..Len(CallsOf("addLine")) |-> CallsOf("addLine")[i].args]
                 = [i \in 1..Len(gmsh_entities.lines) |->
                       LET l == gmsh_entities.lines[i]
                       IN  [startTag |-> l.start_tag, endTag |-> l.end_tag, tag |-> l.tag]]
          /\ [i \in 1..Len(CallsOf("addCurveLoop")) |->
                    <<CallsOf("addCurveLoop")[i].args.curveTags,
                      CallsOf("addCurveLoop")[i].args.tag>>]
                 = [i \in 1..Len(gmsh_entities.curve_loops) |->
                       <<gmsh_entities.curve_loops[i].line_tags,
                         gmsh_entities.curve_loops[i].tag>>]
          /\ \A i \in 1..Len(CallsOf("addCurveLoop")) :
                 CallsOf("addCurveLoop")[i].args.reorient = correct_curve_loops
          /\ [i \in 1..Len(CallsOf("addPlaneSurface")) |-> CallsOf("addPlaneSurface")[i].args]
                 = [i \in 1..Len(gmsh_entities.plane_surfaces) |->
                       LET p == gmsh_entities.plane_surfaces[i]
                       IN  [wireTags |-> p.curve_loop_tags, tag |-> p.tag]]
          /\ [i \in 1..Len(CallsOf("addPhysicalGroup")) |->
                    CallsOf("addPhysicalGroup")[i].args]
                 = [i \in 1..Len(gmsh_entities.physical_groups) |->
                       LET g == gmsh_entities.physical_groups[i]
                       IN  [dim |-> g.dim, tag |-> g.tag, tags |-> g.entity_tags]]

\* a completed run over two records of every kind, with the geometry file
\* written and reorientation asked for
C9_Witness ==
    /\ mesh_pc = "done"
    /\ \A k \in 1..Len(Kinds) : Len(gmsh_entities[Kinds[k]]) = 2
    /\ write_geo
    /\ correct_curve_loops
    /\ Len(CallsOf("addCurveLoop")) = 2
    /\ Len(CallsOf("write")) = 2
====
